---- MODULE Spec2Model ----
(***************************************************************************)
(* Verification model of the langgraph-research-system workflow core:      *)
(*   - the state channels of StateAnnotation (src/state/schema.ts),        *)
(*   - the stage nodes (convert, analyze, write, the quality gates),       *)
(*   - the compiled graphs of the single-paper and literature-review       *)
(*     workflows, and their run wrappers,                                  *)
(*   - the sequential and the wave-parallel multi-paper runners,           *)
(*   - the custom reducers (state/reducers.ts) and the retrying stages.    *)
(*                                                                         *)
(* Optional values (T | null) are modelled as sequences of length <= 1:    *)
(* Null is <<>> and a present value v is <<v>>.  Strings produced by the   *)
(* external collaborators are modelled by their length and by the regex    *)
(* tests the code applies to them.                                         *)
(***************************************************************************)
EXTENDS Integers, Sequences, FiniteSets, TLC

----------------------------------------------------------------------------
(* Bounds of the model *)

MaxRetriesBound == 2
MaxSteps == 8
MaxFindings == 3
MaxAttemptBound == 3
MaxPapers == 4
MaxConcurrency == 2
RecursionLimit == 5
MaxUpdates == 3
MaxRetrySteps == 5
MaxBackward == 2
MaxWords == 4
MaxChunkSize == 3
MaxChunks == 6
MaxQueued == 3

(* Program constants *)

MinSummaryLength == 100
MinAnalysisItems == 3
MinDraftLength == 500
MinSectionLength == 50
PassScore == 60
DefaultMaxRetries == 3

----------------------------------------------------------------------------
(* Optional values *)

Null == <<>>
Some(v) == <<v>>
IsNull(x) == x = Null
Val(x) == x[1]

Max(a, b) == IF a >= b THEN a ELSE b
Min(a, b) == IF a <= b THEN a ELSE b

----------------------------------------------------------------------------
(* StateAnnotation: channels and their reducers *)

NullableFields ==
  {"markdown", "summary", "analysis", "draft", "qualityCheck", "retryInfo",
   "error", "metadata"}

LastWriteReducer(prev, next) == IF next = Null THEN prev ELSE next

LogChannelReducer(prev, next) == prev \o next

ChannelReduce(key, prev, next) ==
  IF key \in {"log", "aggregatedResults"} THEN LogChannelReducer(prev, next)
  ELSE IF key \in NullableFields THEN LastWriteReducer(prev, next)
  ELSE next

(* the graph applies a node's partial update channel by channel *)
ApplyUpdate(s, u) ==
  [k \in DOMAIN s |->
     IF k \in DOMAIN u THEN ChannelReduce(k, s[k], u[k]) ELSE s[k]]

(* a run's initial state completed with the channel defaults *)
InitialState(path, maxRetries, firstLog) ==
  [pdfPath |-> path, status |-> "idle", maxRetries |-> maxRetries,
   markdown |-> Null, summary |-> Null, analysis |-> Null, draft |-> Null,
   qualityCheck |-> Null, retryInfo |-> Null, error |-> Null,
   metadata |-> Null, log |-> <<firstLog>>]

ShouldRetryAlways(s) == TRUE

shouldRetry(s) ==
  IF IsNull(s.retryInfo) THEN FALSE
  ELSE Val(s.retryInfo).attempt < Val(s.retryInfo).maxAttempts

----------------------------------------------------------------------------
(* Outcomes of the external collaborators *)

ConvertOutcomes ==
  {[kind |-> "notfound"], [kind |-> "failed"], [kind |-> "throws"]}
  \cup {[kind |-> "ok", length |-> n] : n \in {0, 1000}}

SummaryLengths == {0, 50, 150}
SectionLengths == {0, 20, 60}
DraftLengths == {0, 200, 600}

AnalysisShapes ==
  [keyFindings : 0..MaxFindings, methodology : SectionLengths,
   conclusions : SectionLengths, researchGap : 0..1]

AnalyzeOutcomes ==
  {[kind |-> "throws"]}
  \cup {[kind |-> "ok", analysis |-> a, summary |-> n] :
          a \in AnalysisShapes, n \in SummaryLengths}

DraftShapes ==
  [length : DraftLengths, hasHeadings : BOOLEAN, hasConclusion : BOOLEAN]

(* the empty string has no heading and no conclusion marker *)
WriteOutcomes ==
  {[kind |-> "throws"]}
  \cup {[kind |-> "ok", draft |-> d] :
          d \in {x \in DraftShapes :
                   x.length = 0 => (~x.hasHeadings /\ ~x.hasConclusion)}}

----------------------------------------------------------------------------
(* Stage nodes: state -> partial update *)

(* the update of a successful conversion; content is what readFile gave: *)
(* the document it was converted from, and its length                    *)
ConvertUpdate(s, content) ==
  [status |-> "analyzing",
   markdown |-> Some(content),
   metadata |-> Some(s.pdfPath),
   log |-> <<"Conversion completed", "Markdown generated">>]

(* a run on its own: the file read back is the one Marker just wrote *)
convertNode(s, o) ==
  IF o.kind \in {"notfound", "failed"}
  THEN [status |-> "error",
        error |-> Some(IF o.kind = "notfound" THEN "PDF file not found"
                       ELSE "Conversion failed"),
        log |-> <<"Starting conversion">>]
  ELSE IF o.kind = "throws"
  THEN [status |-> "error", error |-> Some("convert exception"),
        log |-> <<"Conversion error">>]
  ELSE ConvertUpdate(s, [src |-> s.pdfPath, length |-> o.length])

(* !state.markdown : null or the empty string *)
NoMarkdown(s) == IsNull(s.markdown) \/ Val(s.markdown).length = 0

(* cfg: whether getConfig() succeeds; inside the try block here *)
analyzeNode(s, o, cfg) ==
  IF NoMarkdown(s)
  THEN [status |-> "error", error |-> Some("No markdown content to analyze")]
  ELSE IF ~cfg \/ o.kind = "throws"
  THEN [status |-> "error", error |-> Some("analyze exception"),
        log |-> <<"Analysis error">>]
  ELSE [status |-> "writing", analysis |-> Some(o.analysis),
        summary |-> Some(o.summary),
        log |-> <<"Paper analysis completed", "Extracted key findings",
                  "Identified research gaps", "Found related papers">>]

writeNode(s, o) ==
  IF IsNull(s.analysis)
  THEN [status |-> "error",
        error |-> Some("No analysis available for draft generation")]
  ELSE IF o.kind = "throws"
  THEN [status |-> "error", error |-> Some("write exception"),
        log |-> <<"Draft generation error">>]
  ELSE [status |-> "completed", draft |-> Some(o.draft),
        log |-> <<"Draft generated successfully", "Draft length",
                  "Draft saved to">>]

writeLiteratureReviewNode(s, o) ==
  IF IsNull(s.analysis)
  THEN [status |-> "error",
        error |-> Some("No analysis available for literature review")]
  ELSE IF o.kind = "throws"
  THEN [status |-> "error", error |-> Some("write exception")]
  ELSE [status |-> "quality_check", draft |-> Some(o.draft),
        log |-> <<"Literature review generated successfully",
                  "Review length">>]

----------------------------------------------------------------------------
(* Quality gates *)

(* !state.summary, !state.draft : null or the empty string *)
NoSummary(s) == IsNull(s.summary) \/ Val(s.summary) = 0
NoDraft(s) == IsNull(s.draft) \/ Val(s.draft).length = 0

Penalty(cond, n) == IF cond THEN n ELSE 0

(* the mutant also charges a state that has already been retried *)
AnalysisGateScoreByContext(s) ==
  100
  - (IF NoSummary(s) THEN 30
     ELSE Penalty(Val(s.summary) < MinSummaryLength, 15))
  - (IF IsNull(s.analysis) THEN 40
     ELSE Penalty(Val(s.analysis).keyFindings < MinAnalysisItems, 20))
  - Penalty(~IsNull(s.retryInfo), 10)

AnalysisGateScore(s) ==
  100
  - (IF NoSummary(s) THEN 30
     ELSE Penalty(Val(s.summary) < MinSummaryLength, 15))
  - (IF IsNull(s.analysis) THEN 40
     ELSE Penalty(Val(s.analysis).keyFindings < MinAnalysisItems, 20)
          + Penalty(Val(s.analysis).methodology < MinSectionLength, 10)
          + Penalty(Val(s.analysis).conclusions < MinSectionLength, 10)
          + Penalty(Val(s.analysis).researchGap = 0, 10))

AnalysisGateIssues(s) ==
  (IF NoSummary(s) THEN 1
   ELSE Penalty(Val(s.summary) < MinSummaryLength, 1))
  + (IF IsNull(s.analysis) THEN 1
     ELSE Penalty(Val(s.analysis).keyFindings < MinAnalysisItems, 1)
          + Penalty(Val(s.analysis).methodology < MinSectionLength, 1)
          + Penalty(Val(s.analysis).conclusions < MinSectionLength, 1)
          + Penalty(Val(s.analysis).researchGap = 0, 1))

QualityRecordStrict(score, issues) ==
  [passed |-> Max(0, score) > PassScore, score |-> Max(0, score),
   issues |-> issues]

(* score = Math.max(0, score); passed = score >= 60 *)
QualityRecord(score, issues) ==
  [passed |-> Max(0, score) >= PassScore, score |-> Max(0, score),
   issues |-> issues]

analysisQualityCheckNode(s) ==
  LET qc == QualityRecord(AnalysisGateScore(s), AnalysisGateIssues(s))
  IN [status |-> IF qc.passed THEN "writing" ELSE "analyzing",
      qualityCheck |-> Some(qc),
      log |-> <<"Analysis quality check", "Score">>]

DraftGateScore(s) ==
  100
  - (IF NoDraft(s) THEN 50
     ELSE Penalty(Val(s.draft).length < MinDraftLength, 30))
  - (IF NoDraft(s) THEN 0
     ELSE Penalty(~Val(s.draft).hasHeadings, 10)
          + Penalty(~Val(s.draft).hasConclusion, 10))

DraftGateIssues(s) ==
  (IF NoDraft(s) THEN 1
   ELSE Penalty(Val(s.draft).length < MinDraftLength, 1)
        + Penalty(~Val(s.draft).hasHeadings, 1)
        + Penalty(~Val(s.draft).hasConclusion, 1))

draftQualityCheckNode(s) ==
  LET qc == QualityRecord(DraftGateScore(s), DraftGateIssues(s))
  IN [status |-> IF qc.passed THEN "completed" ELSE "writing",
      qualityCheck |-> Some(qc),
      log |-> <<"Draft quality check", "Score">>]

(* the mutant: a passed gate ends the run, draft or not *)
QualityCheckRoutePassedEnds(s) ==
  IF IsNull(s.qualityCheck) THEN "completed"
  ELSE IF Val(s.qualityCheck).passed THEN "completed"
  ELSE IF IsNull(s.retryInfo) THEN "completed"
  ELSE IF ~(Val(s.retryInfo).attempt < Val(s.retryInfo).maxAttempts)
       THEN "completed"
  ELSE IF NoDraft(s) THEN "analyze"
  ELSE "write"

(* router of both conditional edges of the literature-review graph *)
qualityCheckRoute(s) ==
  IF IsNull(s.qualityCheck) THEN "completed"
  ELSE IF Val(s.qualityCheck).passed
       THEN (IF NoDraft(s) THEN "write" ELSE "completed")
  ELSE IF ~shouldRetry(s) THEN "completed"
  ELSE IF NoDraft(s) THEN "analyze"
  ELSE "write"

----------------------------------------------------------------------------
(* The combined gate: performQualityCheck / determineNextNode /            *)
(* qualityCheckNode                                                        *)

CombinedGateScore(s) ==
  100
  - (IF NoSummary(s) THEN 20
     ELSE Penalty(Val(s.summary) < MinSummaryLength, 10))
  - (IF IsNull(s.analysis) THEN 30
     ELSE Penalty(Val(s.analysis).keyFindings < MinAnalysisItems, 15)
          + Penalty(Val(s.analysis).methodology = 0, 10)
          + Penalty(Val(s.analysis).conclusions = 0, 10))
  - (IF NoDraft(s) THEN 30
     ELSE Penalty(Val(s.draft).length < MinDraftLength, 15))

CombinedGateIssues(s) ==
  (IF NoSummary(s) THEN 1
   ELSE Penalty(Val(s.summary) < MinSummaryLength, 1))
  + (IF IsNull(s.analysis) THEN 1
     ELSE Penalty(Val(s.analysis).keyFindings < MinAnalysisItems, 1)
          + Penalty(Val(s.analysis).methodology = 0, 1)
          + Penalty(Val(s.analysis).conclusions = 0, 1))
  + (IF NoDraft(s) THEN 1
     ELSE Penalty(Val(s.draft).length < MinDraftLength, 1))

AnalysisDeficient(s) ==
  IsNull(s.analysis) \/ Val(s.analysis).keyFindings < MinAnalysisItems

DraftDeficient(s) ==
  NoDraft(s) \/ Val(s.draft).length < MinDraftLength

(* the mutant checks the draft before the analysis *)
PerformQualityCheckDraftFirst(s) ==
  LET qc == QualityRecord(CombinedGateScore(s), CombinedGateIssues(s))
  IN [passed |-> qc.passed, qualityCheck |-> qc,
      nextNode |-> IF qc.passed THEN "completed"
                   ELSE IF DraftDeficient(s) THEN "write"
                   ELSE IF AnalysisDeficient(s) THEN "analyze"
                   ELSE "completed"]

performQualityCheck(s) ==
  LET qc == QualityRecord(CombinedGateScore(s), CombinedGateIssues(s))
  IN [passed |-> qc.passed, qualityCheck |-> qc,
      nextNode |-> IF qc.passed THEN "completed"
                   ELSE IF AnalysisDeficient(s) THEN "analyze"
                   ELSE IF DraftDeficient(s) THEN "write"
                   ELSE "completed"]

(* state.retryInfo?.attempt || 0 *)
CurrentAttempt(s) == IF IsNull(s.retryInfo) THEN 0 ELSE Val(s.retryInfo).attempt

(* state.maxRetries || 3 : a maxRetries of 0 is falsy *)
EffectiveMaxRetries(s) ==
  IF s.maxRetries = 0 THEN DefaultMaxRetries ELSE s.maxRetries

determineNextNode(s, result) ==
  IF result.passed THEN "completed"
  ELSE IF CurrentAttempt(s) >= EffectiveMaxRetries(s) THEN "completed"
  ELSE result.nextNode

qualityCheckNode(s) ==
  LET result == performQualityCheck(s)
      nextNode == determineNextNode(s, result)
  IN [status |-> IF result.passed THEN "completed"
                 ELSE IF nextNode = "analyze" THEN "analyzing"
                 ELSE "writing",
      qualityCheck |-> Some(result.qualityCheck),
      log |-> <<"Quality check", "Score", "Issues",
                IF result.passed THEN "Proceeding to completion"
                ELSE "Retrying from">>]

----------------------------------------------------------------------------
(* State of the model *)

VARIABLES
  wf,        \* pipeline run: which workflow ("single" | "review" | "none")
  pc,        \* pipeline run: next node, "END", or "returned"
  st,        \* pipeline run: the graph state, then the returned state
  init0,     \* pipeline run: initialState of the run wrapper
  trace,     \* pipeline run: node invocations so far
  configOk,  \* whether getConfig() succeeds in this process
  gpre,      \* gate call: the state handed to qualityCheckNode
  gst,       \* gate call: that state merged with the node's update
  groute,    \* gate call: the label determineNextNode returned
  gdone,     \* gate call: whether qualityCheckNode has run
  mode,      \* batch: "seq" (runMultiPaperWorkflow) | "par" (...Parallel)
  pdfPaths,  \* batch: the inputs
  concurrency, \* batch: the wave size of the parallel runner
  bi,        \* batch: the loop variable i (0-based)
  bphase,    \* batch: "loop" | "wave" | "synth" | "compare" | "returned"
  pipes,     \* batch: the single-paper runs of the current wave, by index
  resolved,  \* batch: the records of the wave's settled promises, by index
  doneOrder, \* batch: input indices in the order their runs completed
  aggregatedResults, \* batch: the result list
  cmp,       \* batch: the multi-paper graph run of the sequential runner
  synthLog,  \* batch: the result lists handed to the synthesis stage
  bresult,   \* batch: the returned batch state
  outputFiles, \* batch: Marker's output files, by base name
  ms0,       \* merge: the state before any update
  ms,        \* merge: the state folded with mergeStateReducer
  cs,        \* merge: the same updates applied through the channels
  mprev,     \* merge: ms before the last update
  mupd,      \* merge: the updates applied so far, in order
  rs,        \* retry: the state the retrying stages run on
  rsteps,    \* retry: number of stage invocations so far
  qa,        \* score: a state handed to a gate
  qb,        \* score: a state with the same artifacts in another context
  qgate,     \* score: the gate that was called, or "none"
  qra,       \* score: the quality record the gate produced for qa
  qrb,        \* score: the quality record the gate produced for qb
  kwords,   \* chunking: the number of words of the text
  kchunkSize,   \* chunking: the chunkSize argument
  koverlap,   \* chunking: the overlap argument
  kstart,   \* chunking: the loop variable start
  kchunks,   \* chunking: the chunks pushed so far
  kphase,   \* chunking: "loop" | "returned" | "idle"
  isWorking,   \* orchestrator: state.isWorking
  currentTask,   \* orchestrator: state.currentTask ("none" for null)
  evaluationQueue,   \* orchestrator: the queued items
  inFlight,   \* orchestrator: the items suspended at the await, oldest first
  settled,   \* orchestrator: the calls of the resolve callbacks, in order
  queued,   \* orchestrator: the proposals queueEvaluation was called with
  job,   \* api: the Job object of a request
  jobStored,   \* api: whether the jobs map holds the job
  jobSettled   \* api: whether the workflow promise's handler has run

pipeVars == <<wf, pc, st, init0, trace>>
gateVars == <<gpre, gst, groute, gdone>>
batchVars == <<mode, pdfPaths, concurrency, bi, bphase, pipes, resolved,
               doneOrder, aggregatedResults, cmp, synthLog, bresult,
               outputFiles>>
mergeVars == <<ms0, ms, cs, mprev, mupd>>
retryVars == <<rs, rsteps>>
scoreVars == <<qa, qb, qgate, qra, qrb>>
chunkVars == <<kwords, kchunkSize, koverlap, kstart, kchunks, kphase>>
queueVars == <<isWorking, currentTask, evaluationQueue, inFlight, settled, queued>>
jobVars == <<job, jobStored, jobSettled>>
vars == <<wf, pc, st, init0, trace, configOk, gpre, gst, groute, gdone,
          mode, pdfPaths, concurrency, bi, bphase, pipes, resolved,
          doneOrder, aggregatedResults, cmp, synthLog, bresult, outputFiles,
          ms0, ms, cs, mprev, mupd, rs, rsteps, qa, qb, qgate, qra, qrb,
          kwords, kchunkSize, koverlap, kstart, kchunks, kphase,
          isWorking, currentTask, evaluationQueue, inFlight, settled, queued,
          job, jobStored, jobSettled>>

PipeIdle ==
  /\ wf = "none" /\ pc = "idle" /\ st = Null /\ init0 = Null
  /\ trace = <<>>

GateIdle == gpre = Null /\ gst = Null /\ groute = "none" /\ gdone = FALSE

BatchIdle ==
  /\ mode = "none" /\ pdfPaths = <<>> /\ concurrency = 0 /\ bi = 0
  /\ bphase = "idle" /\ pipes = <<>> /\ resolved = <<>>
  /\ doneOrder = <<>> /\ aggregatedResults = <<>> /\ cmp = Null
  /\ synthLog = <<>> /\ bresult = Null /\ outputFiles = <<>>

MergeIdle ==
  ms0 = Null /\ ms = Null /\ cs = Null /\ mprev = Null /\ mupd = <<>>

RetryIdle == rs = Null /\ rsteps = 0

ScoreIdle ==
  qa = Null /\ qb = Null /\ qgate = "idle" /\ qra = Null /\ qrb = Null

ChunkIdle ==
  /\ kwords = 0 /\ kchunkSize = 0 /\ koverlap = 0 /\ kstart = 0
  /\ kchunks = <<>> /\ kphase = "idle"

QueueIdle ==
  /\ isWorking = FALSE /\ currentTask = "idle" /\ evaluationQueue = <<>>
  /\ inFlight = <<>> /\ settled = <<>> /\ queued = <<>>

JobIdle ==
  job = Null /\ jobStored = FALSE /\ jobSettled = FALSE

----------------------------------------------------------------------------
(* Single-paper and literature-review runs *)

StageNodes == {"convert", "analyze", "write"}
GateNodes == {"analysis_quality_check", "draft_quality_check"}

(* the mutant adds the log line but leaves status and error alone *)
RunCatchKeepStatus(initialState, logLine) ==
  [initialState EXCEPT !.log = @ \o <<logLine>>]

(* the catch block of the run wrappers *)
RunCatch(initialState, logLine) ==
  [initialState EXCEPT !.status = "error",
                       !.error = Some("getConfig exception"),
                       !.log = @ \o <<logLine>>]

CatchLog == IF wf = "single" THEN "Workflow error"
            ELSE "Literature review workflow error"

TraceEntry(node, status, gate) ==
  [node |-> node, status |-> status, gate |-> gate]

GateOf(u) == IF Val(u.qualityCheck).passed THEN "passed" ELSE "failed"

RouteTarget(label) == IF label = "completed" THEN "END" ELSE label

PipelineInit ==
  /\ wf \in {"single", "review"}
  /\ configOk \in BOOLEAN
  /\ \E m \in 0..MaxRetriesBound :
       init0 = InitialState("a.pdf",
                            IF wf = "single" THEN DefaultMaxRetries ELSE m,
                            IF wf = "single"
                            THEN "Starting single paper workflow"
                            ELSE "Starting literature review workflow")
  /\ st = init0
  /\ pc = "convert"
  /\ trace = <<>>
  /\ GateIdle
  /\ BatchIdle
  /\ MergeIdle
  /\ RetryIdle
  /\ ScoreIdle
  /\ ChunkIdle
  /\ QueueIdle
  /\ JobIdle

CanStep(node) == pc = node /\ Len(trace) < MaxSteps

(* an exception escaping a node rejects invoke(); the wrapper catches it *)
Escape(node) ==
  /\ st' = RunCatch(init0, CatchLog)
  /\ pc' = "returned"
  /\ trace' = Append(trace, TraceEntry(node, "threw", "na"))

Convert ==
  /\ CanStep("convert")
  /\ \E o \in ConvertOutcomes :
       LET u == convertNode(st, o)
       IN /\ st' = ApplyUpdate(st, u)
          /\ trace' = Append(trace, TraceEntry("convert", u.status, "na"))
  /\ pc' = "analyze"
  /\ UNCHANGED <<wf, init0, configOk, gateVars, batchVars, mergeVars, retryVars,
                 scoreVars, chunkVars, queueVars, jobVars>>

Analyze ==
  /\ CanStep("analyze")
  /\ \E o \in AnalyzeOutcomes :
       LET u == analyzeNode(st, o, configOk)
       IN /\ st' = ApplyUpdate(st, u)
          /\ trace' = Append(trace, TraceEntry("analyze", u.status, "na"))
  /\ pc' = IF wf = "single" THEN "write" ELSE "analysis_quality_check"
  /\ UNCHANGED <<wf, init0, configOk, gateVars, batchVars, mergeVars, retryVars,
                 scoreVars, chunkVars, queueVars, jobVars>>

Write ==
  /\ CanStep("write")
  /\ IF ~configOk THEN Escape("write")
     ELSE \E o \in WriteOutcomes :
            LET u == IF wf = "single" THEN writeNode(st, o)
                     ELSE writeLiteratureReviewNode(st, o)
            IN /\ st' = ApplyUpdate(st, u)
               /\ trace' = Append(trace, TraceEntry("write", u.status, "na"))
               /\ pc' = IF wf = "single" THEN "END"
                        ELSE "draft_quality_check"
  /\ UNCHANGED <<wf, init0, configOk, gateVars, batchVars, mergeVars, retryVars,
                 scoreVars, chunkVars, queueVars, jobVars>>

AnalysisQualityCheck ==
  /\ CanStep("analysis_quality_check")
  /\ IF ~configOk THEN Escape("analysis_quality_check")
     ELSE LET u == analysisQualityCheckNode(st)
              s2 == ApplyUpdate(st, u)
          IN /\ st' = s2
             /\ trace' = Append(trace,
                   TraceEntry("analysis_quality_check", u.status, GateOf(u)))
             /\ pc' = RouteTarget(qualityCheckRoute(s2))
  /\ UNCHANGED <<wf, init0, configOk, gateVars, batchVars, mergeVars, retryVars,
                 scoreVars, chunkVars, queueVars, jobVars>>

DraftQualityCheck ==
  /\ CanStep("draft_quality_check")
  /\ IF ~configOk THEN Escape("draft_quality_check")
     ELSE LET u == draftQualityCheckNode(st)
              s2 == ApplyUpdate(st, u)
          IN /\ st' = s2
             /\ trace' = Append(trace,
                   TraceEntry("draft_quality_check", u.status, GateOf(u)))
             /\ pc' = RouteTarget(qualityCheckRoute(s2))
  /\ UNCHANGED <<wf, init0, configOk, gateVars, batchVars, mergeVars, retryVars,
                 scoreVars, chunkVars, queueVars, jobVars>>

(* the graph reached END: invoke() resolves and the wrapper returns it *)
ReturnResult ==
  /\ pc = "END"
  /\ pc' = "returned"
  /\ UNCHANGED <<wf, st, init0, trace, configOk, gateVars, batchVars,
                 mergeVars, retryVars, scoreVars, chunkVars, queueVars,
                 jobVars>>

PipelineNext ==
  \/ Convert
  \/ Analyze
  \/ Write
  \/ AnalysisQualityCheck
  \/ DraftQualityCheck
  \/ ReturnResult

SpecPipeline == PipelineInit /\ [][PipelineNext]_vars

----------------------------------------------------------------------------
(* A call of the combined gate on an arbitrary state *)

GateInputs ==
  { [InitialState("a.pdf", m, "Starting") EXCEPT
       !.status = "quality_check",
       !.markdown = Some([src |-> "a.pdf", length |-> 1000]),
       !.summary = sm, !.analysis = an, !.draft = dr, !.retryInfo = ri] :
    m \in 0..MaxRetriesBound,
    sm \in {Null} \cup {Some(n) : n \in SummaryLengths},
    an \in {Null} \cup {Some(a) : a \in AnalysisShapes},
    dr \in {Null} \cup {Some(o.draft) : o \in WriteOutcomes \ {[kind |-> "throws"]}},
    ri \in {Null} \cup
           {Some([attempt |-> a, maxAttempts |-> DefaultMaxRetries]) :
              a \in 0..MaxAttemptBound} }

GateInit ==
  /\ gpre \in GateInputs
  /\ gst = gpre
  /\ groute = "none"
  /\ gdone = FALSE
  /\ PipeIdle
  /\ BatchIdle
  /\ MergeIdle
  /\ RetryIdle
  /\ configOk \in BOOLEAN
  /\ ScoreIdle
  /\ ChunkIdle
  /\ QueueIdle
  /\ JobIdle

(* getConfig() is called before the try block: its exception rejects the call *)
QualityCheck ==
  /\ ~gdone
  /\ IF ~configOk
     THEN gst' = gpre /\ groute' = "threw"
     ELSE LET u == qualityCheckNode(gpre)
          IN /\ gst' = ApplyUpdate(gpre, u)
             /\ groute' = determineNextNode(gpre, performQualityCheck(gpre))
  /\ gdone' = TRUE
  /\ UNCHANGED <<gpre, configOk, pipeVars, batchVars, mergeVars, retryVars,
                 scoreVars, chunkVars, queueVars, jobVars>>

GateNext == QualityCheck

SpecGate == GateInit /\ [][GateNext]_vars

----------------------------------------------------------------------------
(* Multi-paper runners *)

(* the first two inputs are different files with the same base name *)
PathNames == <<"x/a.pdf", "y/a.pdf", "c.pdf", "d.pdf", "e.pdf", "f.pdf">>
BaseNames == <<"a", "a", "c", "d", "e", "f">>

(* path.basename(pdfPath, '.pdf') *)
BaseName(path) ==
  BaseNames[CHOOSE i \in 1..Len(PathNames) : PathNames[i] = path]

(* output/{basename}/{basename}.md under the working directory *)
MarkerOutputPath(path) == BaseName(path)

(* the input lists: the first m paths, 1 <= m <= n *)
InputLists(n) == {SubSeq(PathNames, 1, m) : m \in 1..Min(n, Len(PathNames))}

(* 0-based access, as in the code *)
PathAt(k) == pdfPaths[k + 1]
NumPapers == Len(pdfPaths)

GoodAnalysis ==
  [keyFindings |-> MinAnalysisItems, methodology |-> 60, conclusions |-> 60,
   researchGap |-> 1]
GoodDraft == [length |-> 600, hasHeadings |-> TRUE, hasConclusion |-> TRUE]
EmptyDraft == [length |-> 0, hasHeadings |-> FALSE, hasConclusion |-> FALSE]

(* collaborator outcomes used inside a batch *)
StepOutcomes(node) ==
  IF node = "convert"
  THEN {[kind |-> "notfound"], [kind |-> "ok", length |-> 1000]}
  ELSE IF node = "convert_read"
  THEN {[kind |-> "read"]}
  ELSE IF node = "analyze"
  THEN {[kind |-> "throws"],
        [kind |-> "ok", analysis |-> GoodAnalysis, summary |-> 150]}
  ELSE {[kind |-> "throws"], [kind |-> "ok", draft |-> GoodDraft]}

SynthOutcomes ==
  {[kind |-> "throws"], [kind |-> "ok", draft |-> GoodDraft],
   [kind |-> "ok", draft |-> EmptyDraft]}

(* runSinglePaperWorkflow: a fresh graph run on its own initial state *)
NewSinglePaperRun(path) ==
  LET i0 == InitialState(path, DefaultMaxRetries,
                         "Starting single paper workflow")
  IN [pc |-> "convert", st |-> i0, init |-> i0]

(* the files after a step of a run: a successful Marker process has *)
(* written the output file of its input                              *)
FilesAfter(files, p, o) ==
  IF p.pc = "convert" /\ o.kind = "ok"
  THEN (MarkerOutputPath(p.st.pdfPath) :>
          [src |-> p.st.pdfPath, length |-> o.length]) @@ files
  ELSE files

(* one step of the graph convert -> analyze -> write -> END of a run; the *)
(* run has returned once write has.  convert is two steps: the Marker     *)
(* process (await runCommand), then readFile of the output file           *)
SinglePaperStep(p, o, cfg, files) ==
  IF p.pc = "convert"
  THEN (IF o.kind = "ok" THEN [p EXCEPT !.pc = "convert_read"]
        ELSE [p EXCEPT !.pc = "analyze",
                       !.st = ApplyUpdate(p.st, convertNode(p.st, o))])
  ELSE IF p.pc = "convert_read"
  THEN [p EXCEPT !.pc = "analyze",
                 !.st = ApplyUpdate(p.st,
                    ConvertUpdate(p.st, files[MarkerOutputPath(p.st.pdfPath)]))]
  ELSE IF p.pc = "analyze"
  THEN [p EXCEPT !.pc = "write",
                 !.st = ApplyUpdate(p.st, analyzeNode(p.st, o, cfg))]
  ELSE IF ~cfg
  THEN [p EXCEPT !.pc = "returned",
                 !.st = RunCatch(p.init, "Workflow error")]
  ELSE [p EXCEPT !.pc = "returned",
                 !.st = ApplyUpdate(p.st, writeNode(p.st, o))]

SeqRecord(i, path, result) ==
  [index |-> i, pdfPath |-> path, markdown |-> result.markdown,
   summary |-> result.summary, analysis |-> result.analysis,
   metadata |-> result.metadata, error |-> Null]

ParRecord(globalIndex, path, result) ==
  [index |-> globalIndex, pdfPath |-> path, markdown |-> result.markdown,
   summary |-> result.summary, analysis |-> result.analysis,
   metadata |-> result.metadata,
   error |-> IF result.status = "error" THEN result.error ELSE Null]

WaveEndPlusOne(i, c, n) == Min(i + c + 1, n)

(* pdfPaths.slice(i, Math.min(i + concurrency, pdfPaths.length)) *)
WaveEnd(i, c, n) == Min(i + c, n)

(* the mutant yields the results in the order the promises settled *)
PromiseAllSettleOrder(first, count, res, order) ==
  [j \in 1..count |-> res[order[j]]]

(* Promise.all: the results in the order of the promises, whatever the *)
(* order they settled in *)
PromiseAll(first, count, res, order) ==
  [j \in 1..count |-> res[first + j - 1]]

PushBatchSuccessesOnly(agg, batchResults) ==
  agg \o SelectSeq(batchResults, LAMBDA r : r.error = Null)

(* aggregatedResults.push(...batchResults) *)
PushBatch(agg, batchResults) == agg \o batchResults

(* !r.error : undefined or the empty string *)
NoError(r) == r.error = Null \/ Val(r.error) = ""

SuccessfulResults(agg) == SelectSeq(agg, NoError)

writeComparativeAnalysisNode(s, o) ==
  IF Len(s.aggregatedResults) = 0
  THEN [status |-> "error",
        error |-> Some("No aggregated results available")]
  ELSE IF o.kind = "throws"
  THEN [status |-> "error", error |-> Some("write exception")]
  ELSE [status |-> "completed", draft |-> Some(o.draft),
        log |-> <<"Comparative analysis generated successfully",
                  "Analysis length">>]

multiPaperRoute(s) ==
  IF s.currentPaperIndex >= s.totalPapers - 1
  THEN (IF s.totalPapers > 1 /\ Len(s.aggregatedResults) > 1
        THEN "write_comparison" ELSE "completed")
  ELSE "convert"

(* comparisonState / tempState of the runners *)
ComparisonState(paths, agg, logLines) ==
  [InitialState(paths[1], DefaultMaxRetries, "x") EXCEPT
      !.status = "writing", !.log = logLines]
  @@ [currentPaperIndex |-> 0, totalPapers |-> Len(paths),
      aggregatedResults |-> agg]

(* result.status === 'completed' && result.draft *)
AcceptedDraft(result) ==
  IF result.status = "completed" /\ ~NoDraft(result) THEN result.draft
  ELSE Null

BatchState(status, draft) ==
  [status |-> status, pdfPaths |-> pdfPaths,
   currentPaperIndex |-> NumPapers - 1, totalPapers |-> NumPapers,
   aggregatedResults |-> aggregatedResults, draft |-> draft]

BatchInit ==
  /\ mode \in {"seq", "par"}
  /\ pdfPaths \in InputLists(MaxPapers)
  /\ concurrency \in (IF mode = "par" THEN (0 - 1)..MaxConcurrency ELSE {1})
  /\ configOk \in BOOLEAN
  /\ bi = 0
  /\ bphase = "loop"
  /\ pipes = <<>> /\ resolved = <<>> /\ doneOrder = <<>>
  /\ aggregatedResults = <<>> /\ cmp = Null /\ synthLog = <<>>
  /\ bresult = Null
  /\ outputFiles = <<>>
  /\ PipeIdle
  /\ GateIdle
  /\ MergeIdle
  /\ RetryIdle
  /\ ScoreIdle
  /\ ChunkIdle
  /\ QueueIdle
  /\ JobIdle

Running == {k \in DOMAIN pipes : pipes[k].pc # "returned"}

LoopRunningShort(i, n) == i + 1 < n

(* the loop condition i < pdfPaths.length of both runners *)
LoopRunning(i, n) == i < n

(* sequential loop body up to the await of runSinglePaperWorkflow *)
SeqDispatch ==
  /\ mode = "seq" /\ bphase = "loop" /\ LoopRunning(bi, NumPapers)
  /\ pipes' = (bi :> NewSinglePaperRun(PathAt(bi)))
  /\ resolved' = <<>>
  /\ bphase' = "wave"
  /\ UNCHANGED <<mode, pdfPaths, outputFiles, concurrency, bi, doneOrder,
                 aggregatedResults, cmp, synthLog, bresult, configOk,
                 pipeVars, gateVars, mergeVars, retryVars, scoreVars,
                 chunkVars, queueVars, jobVars>>

(* the rest of the sequential loop body *)
SeqCollect ==
  /\ mode = "seq" /\ bphase = "wave" /\ Running = {}
  /\ aggregatedResults' = Append(aggregatedResults, resolved[bi])
  /\ bi' = bi + 1
  /\ bphase' = "loop"
  /\ pipes' = <<>> /\ resolved' = <<>>
  /\ UNCHANGED <<mode, pdfPaths, outputFiles, concurrency, doneOrder, cmp, synthLog,
                 bresult, configOk, pipeVars, gateVars, mergeVars, retryVars,
                 scoreVars, chunkVars, queueVars, jobVars>>

(* Array.prototype.slice: a negative index counts from the end, and *)
(* every index is clamped to 0..n                                   *)
SliceIndex(k, n) == IF k < 0 THEN Max(n + k, 0) ELSE Min(k, n)

(* the number of elements of slice(from, to) *)
SliceLength(from, to, n) == Max(SliceIndex(to, n) - SliceIndex(from, n), 0)

(* batch.map(async ...): every run of the wave is started; the run of *)
(* batch element batchIndex has globalIndex i + batchIndex            *)
ParDispatchWave ==
  /\ mode = "par" /\ bphase = "loop" /\ LoopRunning(bi, NumPapers)
  /\ bi >= 0 - MaxBackward
  /\ LET end == WaveEnd(bi, concurrency, NumPapers)
         len == SliceLength(bi, end, NumPapers)
     IN pipes' = [k \in bi..(bi + len - 1) |->
                    NewSinglePaperRun(
                      PathAt(SliceIndex(bi, NumPapers) + (k - bi)))]
  /\ resolved' = <<>>
  /\ bphase' = "wave"
  /\ UNCHANGED <<mode, pdfPaths, outputFiles, concurrency, bi, doneOrder,
                 aggregatedResults, cmp, synthLog, bresult, configOk,
                 pipeVars, gateVars, mergeVars, retryVars, scoreVars,
                 chunkVars, queueVars, jobVars>>

(* one node of one in-flight run; a run that returns settles its promise *)
PipelineStep ==
  /\ bphase = "wave"
  /\ \E k \in Running :
       \E o \in StepOutcomes(pipes[k].pc) :
         LET p2 == SinglePaperStep(pipes[k], o, configOk, outputFiles)
         IN /\ pipes' = [pipes EXCEPT ![k] = p2]
            /\ outputFiles' = FilesAfter(outputFiles, pipes[k], o)
            /\ IF p2.pc = "returned"
               THEN /\ doneOrder' = Append(doneOrder, k)
                    /\ resolved' = resolved @@
                         (k :> IF mode = "seq"
                               THEN SeqRecord(k, PathAt(k), p2.st)
                               ELSE ParRecord(k, PathAt(k), p2.st))
               ELSE UNCHANGED <<doneOrder, resolved>>
  /\ UNCHANGED <<mode, pdfPaths, concurrency, bi, bphase, aggregatedResults,
                 cmp, synthLog, bresult, configOk, pipeVars, gateVars,
                 mergeVars, retryVars, scoreVars, chunkVars, queueVars,
                 jobVars>>

WaveOrder == SelectSeq(doneOrder, LAMBDA k : k \in DOMAIN pipes)

(* await Promise.all(batchPromises); push; i += concurrency *)
ParAwaitWave ==
  /\ mode = "par" /\ bphase = "wave" /\ Running = {}
  /\ aggregatedResults' =
       PushBatch(aggregatedResults,
                 PromiseAll(bi, Cardinality(DOMAIN pipes), resolved,
                            WaveOrder))
  /\ bi' = bi + concurrency
  /\ bphase' = "loop"
  /\ pipes' = <<>> /\ resolved' = <<>>
  /\ UNCHANGED <<mode, pdfPaths, outputFiles, concurrency, doneOrder, cmp, synthLog,
                 bresult, configOk, pipeVars, gateVars, mergeVars, retryVars,
                 scoreVars, chunkVars, queueVars, jobVars>>

(* parallel runner after the loop, two or more error-free records: the *)
(* call of writeComparativeAnalysisNode, up to its await *)
ParStartSynthesis ==
  /\ mode = "par" /\ bphase = "loop" /\ ~LoopRunning(bi, NumPapers)
  /\ Len(SuccessfulResults(aggregatedResults)) > 1
  /\ synthLog' = Append(synthLog, SuccessfulResults(aggregatedResults))
  /\ bphase' = "synth"
  /\ UNCHANGED <<mode, pdfPaths, outputFiles, concurrency, bi, pipes, resolved,
                 doneOrder, aggregatedResults, cmp, bresult, configOk,
                 pipeVars, gateVars, mergeVars, retryVars, scoreVars,
                 chunkVars, queueVars, jobVars>>

(* parallel runner: the synthesis call resolves or throws (caught), or it *)
(* was skipped; then the batch state is returned *)
ParFinish ==
  /\ mode = "par"
  /\ LET ok == SuccessfulResults(aggregatedResults)
         temp == ComparisonState(pdfPaths, ok, <<>>)
     IN \/ /\ bphase = "synth"
           /\ IF ~configOk
              THEN bresult' = Some(BatchState("completed", Null))
              ELSE \E o \in SynthOutcomes :
                     bresult' = Some(BatchState("completed",
                        AcceptedDraft(ApplyUpdate(temp,
                           writeComparativeAnalysisNode(temp, o)))))
        \/ /\ bphase = "loop" /\ ~LoopRunning(bi, NumPapers)
           /\ Len(ok) <= 1
           /\ bresult' = Some(BatchState("completed", Null))
  /\ bphase' = "returned"
  /\ UNCHANGED <<mode, pdfPaths, outputFiles, concurrency, bi, pipes, resolved,
                 doneOrder, aggregatedResults, cmp, synthLog, configOk,
                 pipeVars, gateVars, mergeVars, retryVars, scoreVars,
                 chunkVars, queueVars, jobVars>>

(* sequential runner after the loop, one result or none: no comparison *)
SeqFinish ==
  /\ mode = "seq" /\ bphase = "loop" /\ ~LoopRunning(bi, NumPapers)
  /\ Len(aggregatedResults) <= 1
  /\ bresult' = Some(BatchState("completed", Null))
  /\ bphase' = "returned"
  /\ UNCHANGED <<mode, pdfPaths, outputFiles, concurrency, bi, pipes, resolved,
                 doneOrder, aggregatedResults, cmp, synthLog, configOk,
                 pipeVars, gateVars, mergeVars, retryVars, scoreVars,
                 chunkVars, queueVars, jobVars>>

(* sequential runner: workflow.invoke(comparisonState) on the graph of *)
(* createMultiPaperWorkflow, entry point convert *)
SeqStartCompare ==
  /\ mode = "seq" /\ bphase = "loop" /\ ~LoopRunning(bi, NumPapers)
  /\ Len(aggregatedResults) > 1
  /\ cmp' = Some([pc |-> "convert", steps |-> 0,
                  st |-> ComparisonState(pdfPaths, aggregatedResults,
                           <<"Generating comparative analysis">>)])
  /\ bphase' = "compare"
  /\ UNCHANGED <<mode, pdfPaths, outputFiles, concurrency, bi, pipes, resolved,
                 doneOrder, aggregatedResults, synthLog, bresult, configOk,
                 pipeVars, gateVars, mergeVars, retryVars, scoreVars,
                 chunkVars, queueVars, jobVars>>

CompareTarget(label) == IF label = "completed" THEN "END" ELSE label

(* one superstep of the multi-paper graph *)
CompareStep ==
  /\ bphase = "compare"
  /\ Val(cmp).pc \in {"convert", "analyze", "write_comparison"}
  /\ Val(cmp).steps < RecursionLimit
  /\ LET c == Val(cmp) IN
       IF c.pc = "convert"
       THEN /\ \E o \in StepOutcomes("convert") :
                 cmp' = Some([pc |-> "analyze", steps |-> c.steps + 1,
                              st |-> ApplyUpdate(c.st, convertNode(c.st, o))])
            /\ UNCHANGED synthLog
       ELSE IF c.pc = "analyze"
       THEN /\ \E o \in StepOutcomes("analyze") :
                 LET s2 == ApplyUpdate(c.st, analyzeNode(c.st, o, configOk))
                 IN cmp' = Some([pc |-> CompareTarget(multiPaperRoute(s2)),
                                 steps |-> c.steps + 1, st |-> s2])
            /\ UNCHANGED synthLog
       ELSE /\ synthLog' = Append(synthLog, c.st.aggregatedResults)
            /\ IF ~configOk
               THEN cmp' = Some([c EXCEPT !.pc = "threw"])
               ELSE \E o \in SynthOutcomes :
                      cmp' = Some([pc |-> "END", steps |-> c.steps + 1,
                                   st |-> ApplyUpdate(c.st,
                                     writeComparativeAnalysisNode(c.st, o))])
  /\ UNCHANGED <<mode, pdfPaths, outputFiles, concurrency, bi, bphase, pipes, resolved,
                 doneOrder, aggregatedResults, bresult, configOk, pipeVars,
                 gateVars, mergeVars, retryVars, scoreVars, chunkVars,
                 queueVars, jobVars>>

(* invoke() resolves at END, or rejects: an escaped exception, or the *)
(* recursion limit of the graph runtime; then the runner returns *)
SeqCompareReturn ==
  /\ bphase = "compare"
  /\ LET c == Val(cmp) IN
       /\ c.pc \in {"END", "threw"} \/ c.steps >= RecursionLimit
       /\ bresult' =
            IF c.pc = "END"
            THEN Some(BatchState(
                   IF AcceptedDraft(c.st) # Null THEN "completed"
                   ELSE IF c.st.status = "error" THEN "error"
                   ELSE "completed",
                   AcceptedDraft(c.st)))
            ELSE Some(BatchState("error", Null))
  /\ bphase' = "returned"
  /\ UNCHANGED <<mode, pdfPaths, outputFiles, concurrency, bi, pipes, resolved,
                 doneOrder, aggregatedResults, cmp, synthLog, configOk,
                 pipeVars, gateVars, mergeVars, retryVars, scoreVars,
                 chunkVars, queueVars, jobVars>>

(* getMultiPaperSummary: the counts of a batch state *)
getMultiPaperSummary(state) ==
  LET totalPapers == IF state.totalPapers # 0 THEN state.totalPapers
                     ELSE Len(state.pdfPaths)
      successfulPapers == Len(SuccessfulResults(state.aggregatedResults))
  IN [totalPapers |-> totalPapers,
      successfulPapers |-> successfulPapers,
      failedPapers |-> totalPapers - successfulPapers,
      hasComparativeAnalysis |-> state.draft # Null]

BatchNext ==
  \/ SeqDispatch
  \/ SeqCollect
  \/ ParDispatchWave
  \/ PipelineStep
  \/ ParAwaitWave
  \/ ParStartSynthesis
  \/ ParFinish
  \/ SeqFinish
  \/ SeqStartCompare
  \/ CompareStep
  \/ SeqCompareReturn

SpecBatch == BatchInit /\ [][BatchNext]_vars

----------------------------------------------------------------------------
(* The custom reducers (state/reducers.ts) *)

(* lists and records of an update are optional: null, or a value *)

analysisReducer(prev, next) ==
  IF next = Null THEN prev
  ELSE IF prev = Null THEN next
  ELSE LET p == Val(prev)
           n == Val(next)
       IN Some([researchGap |-> p.researchGap \o n.researchGap,
                relatedPapers |-> p.relatedPapers \o n.relatedPapers,
                keyFindings |-> p.keyFindings \o n.keyFindings,
                methodology |-> IF n.methodology # "" THEN n.methodology
                                ELSE p.methodology,
                conclusions |-> IF n.conclusions # "" THEN n.conclusions
                                ELSE p.conclusions,
                strengths |-> p.strengths \o n.strengths,
                limitations |-> p.limitations \o n.limitations,
                suggestions |-> p.suggestions \o n.suggestions])

QualityCheckReducerKeepFirst(prev, next) ==
  IF prev = Null THEN next ELSE prev

qualityCheckReducer(prev, next) == IF next = Null THEN prev ELSE next

retryInfoReducer(prev, next) ==
  IF next = Null THEN prev
  ELSE Some([Val(next) EXCEPT
               !.lastError = IF prev = Null THEN Null
                             ELSE Val(prev).lastError])

LogReducerReplace(prev, next) ==
  IF next = Null THEN <<>> ELSE Val(next)

logReducer(prev, next) ==
  IF next = Null THEN (IF prev = Null THEN <<>> ELSE Val(prev))
  ELSE IF prev = Null THEN Val(next)
  ELSE Val(prev) \o Val(next)

aggregatedResultsReducer(prev, next) ==
  IF next = Null THEN (IF prev = Null THEN <<>> ELSE Val(prev))
  ELSE IF prev = Null THEN Val(next)
  ELSE Val(prev) \o Val(next)

(* the mutant ranks retry and error with idle *)
StatusOrderFlat(s) ==
  CASE s = "converting" -> 1
    [] s = "analyzing" -> 2
    [] s = "writing" -> 3
    [] s = "quality_check" -> 4
    [] s = "completed" -> 7
    [] OTHER -> 0

(* statusOrder[s] ?? 0 *)
statusOrder(s) ==
  CASE s = "idle" -> 0
    [] s = "converting" -> 1
    [] s = "analyzing" -> 2
    [] s = "writing" -> 3
    [] s = "quality_check" -> 4
    [] s = "retry" -> 5
    [] s = "error" -> 6
    [] s = "completed" -> 7
    [] OTHER -> 0

StatusReducerErrorWins(prev, next) ==
  IF next \in {"retry", "error"} THEN next
  ELSE IF statusOrder(next) >= statusOrder(prev) THEN next
  ELSE prev

(* the empty string stands for a null or missing status *)
statusReducer(prev, next) ==
  IF next = "" THEN prev
  ELSE IF prev = "" THEN next
  ELSE IF next = "retry" THEN next
  ELSE IF next = "error" /\ prev # "completed" THEN next
  ELSE IF statusOrder(next) >= statusOrder(prev) THEN next
  ELSE prev

(* the mutant starts from the defaults instead of a copy of the state *)
MergeStateReducerNoCopy(state, update) ==
  [k \in DOMAIN state |->
     IF k \in DOMAIN update /\ k \notin {"log", "aggregatedResults"}
     THEN update[k]
     ELSE IF k = "status" THEN "idle"
     ELSE Null]

(* the keys of update are its entries whose value is not undefined *)
mergeStateReducer(state, update) ==
  [k \in DOMAIN state |->
     IF k \notin DOMAIN update THEN state[k]
     ELSE CASE k = "analysis" ->
                 analysisReducer(state.analysis, update.analysis)
            [] k = "qualityCheck" ->
                 qualityCheckReducer(state.qualityCheck, update.qualityCheck)
            [] k = "retryInfo" ->
                 retryInfoReducer(state.retryInfo, update.retryInfo)
            [] k = "log" -> logReducer(Some(state.log), update.log)
            [] k = "aggregatedResults" ->
                 aggregatedResultsReducer(Some(state.aggregatedResults),
                                          update.aggregatedResults)
            [] k = "status" -> statusReducer(state.status, update.status)
            [] OTHER -> update[k]]

WorkflowStatus ==
  {"idle", "converting", "analyzing", "writing", "quality_check",
   "completed", "error", "retry"}

(* values carried by the updates *)
AnalysisA ==
  [researchGap |-> <<"g1">>, relatedPapers |-> <<>>,
   keyFindings |-> <<"f1", "f2">>, methodology |-> "m1",
   conclusions |-> "c1", strengths |-> <<"s1">>, limitations |-> <<>>,
   suggestions |-> <<"x1">>]
AnalysisB ==
  [researchGap |-> <<"g2">>, relatedPapers |-> <<"p2">>,
   keyFindings |-> <<"f3">>, methodology |-> "",
   conclusions |-> "c2", strengths |-> <<>>, limitations |-> <<"w2">>,
   suggestions |-> <<>>]
RetryWithError ==
  [attempt |-> 1, maxAttempts |-> 3, reason |-> "PDF conversion failed",
   lastError |-> Some("e1")]
RetryWithoutError ==
  [attempt |-> 2, maxAttempts |-> 4, reason |-> "quality", lastError |-> Null]
QualityA == [passed |-> FALSE, score |-> 40, issues |-> 2]
QualityB == [passed |-> TRUE, score |-> 90, issues |-> 0]

(* the partial updates folded into a state *)
RECURSIVE batchStateReducer(_, _)
(* updates.reduce((acc, update) => mergeStateReducer(acc, update), state) *)
batchStateReducer(state, updates) ==
  IF updates = <<>> THEN state
  ELSE batchStateReducer(mergeStateReducer(state, Head(updates)),
                         Tail(updates))

MergeUpdates ==
  {[status |-> x] : x \in WorkflowStatus}
  \cup {[log |-> Some(<<"l1">>)], [log |-> Some(<<"l2", "l3">>)],
        [log |-> Null],
        [aggregatedResults |-> Some(<<"r1">>)],
        [aggregatedResults |-> Some(<<"r2", "r1">>)],
        [analysis |-> Some(AnalysisA)], [analysis |-> Some(AnalysisB)],
        [analysis |-> Null],
        [qualityCheck |-> Some(QualityA)],
        [qualityCheck |-> Some(QualityB)], [qualityCheck |-> Null],
        [retryInfo |-> Some(RetryWithError)],
        [retryInfo |-> Some(RetryWithoutError)],
        [draft |-> Some("d1")], [draft |-> Null],
        [status |-> "completed", draft |-> Some("d2"),
         log |-> Some(<<"l4">>)]}

(* the same update as a graph node would return it: a list is an array, *)
(* and a null list is appended as nothing by the channel reducers       *)
ChannelUpdate(u) ==
  [k \in DOMAIN u |->
     IF k \in {"log", "aggregatedResults"}
     THEN (IF u[k] = Null THEN <<>> ELSE Val(u[k]))
     ELSE u[k]]

MergeInitialState ==
  [status |-> "idle", log |-> <<"l0">>, aggregatedResults |-> <<>>,
   analysis |-> Null, qualityCheck |-> Null, retryInfo |-> Null,
   draft |-> Null]

MergeInit ==
  /\ ms0 = MergeInitialState
  /\ ms = ms0 /\ cs = ms0 /\ mprev = ms0
  /\ mupd = <<>>
  /\ configOk = TRUE
  /\ PipeIdle
  /\ GateIdle
  /\ BatchIdle
  /\ RetryIdle
  /\ ScoreIdle
  /\ ChunkIdle
  /\ QueueIdle
  /\ JobIdle

(* one more update: batchStateReducer's fold step, and the channel merge *)
MergeStep ==
  /\ Len(mupd) < MaxUpdates
  /\ \E u \in MergeUpdates :
       /\ ms' = mergeStateReducer(ms, u)
       /\ cs' = ApplyUpdate(cs, ChannelUpdate(u))
       /\ mprev' = ms
       /\ mupd' = Append(mupd, u)
  /\ UNCHANGED <<ms0, configOk, pipeVars, gateVars, batchVars, retryVars,
                 scoreVars, chunkVars, queueVars, jobVars>>

MergeNext == MergeStep

SpecMerge == MergeInit /\ [][MergeNext]_vars

----------------------------------------------------------------------------
(* The retrying stages *)

(* createStateUpdate without a log message; lastUpdated is not modelled *)
createRetryState(currentAttempt, maxAttempts, reason) ==
  [status |-> "retry",
   retryInfo |-> Some([attempt |-> currentAttempt + 1,
                       maxAttempts |-> maxAttempts, reason |-> reason])]

(* the catch block is dead: convertNode catches every exception itself *)
convertNodeWithRetry(s, o) ==
  LET maxRetries == EffectiveMaxRetries(s)
      currentAttempt == CurrentAttempt(s)
      result == convertNode(s, o)
  IN IF result.status # "error" THEN result
     ELSE IF currentAttempt < maxRetries
     THEN [status |-> "retry",
           retryInfo |-> Some([attempt |-> currentAttempt + 1,
                               maxAttempts |-> maxRetries,
                               reason |-> "PDF conversion failed",
                               lastError |-> result.error]),
           log |-> <<"Retry attempt">>]
     ELSE result

(* as above: analyzeNode catches every exception itself *)
analyzeNodeWithRetry(s, o, cfg) ==
  LET maxRetries == EffectiveMaxRetries(s)
      currentAttempt == CurrentAttempt(s)
      result == analyzeNode(s, o, cfg)
  IN IF result.status # "error" THEN result
     ELSE IF currentAttempt < maxRetries
     THEN [status |-> "retry",
           retryInfo |-> Some([attempt |-> currentAttempt + 1,
                               maxAttempts |-> maxRetries,
                               reason |-> "LLM analysis failed",
                               lastError |-> result.error]),
           log |-> <<"Analysis retry attempt">>]
     ELSE result

RetryInit ==
  /\ \E m \in 0..MaxRetriesBound :
       rs = InitialState("a.pdf", m, "Starting")
  /\ rsteps = 0
  /\ configOk \in BOOLEAN
  /\ PipeIdle
  /\ GateIdle
  /\ BatchIdle
  /\ MergeIdle
  /\ ScoreIdle
  /\ ChunkIdle
  /\ QueueIdle
  /\ JobIdle

ConvertWithRetry ==
  /\ rsteps < MaxRetrySteps
  /\ \E o \in StepOutcomes("convert") :
       rs' = ApplyUpdate(rs, convertNodeWithRetry(rs, o))
  /\ rsteps' = rsteps + 1
  /\ UNCHANGED <<configOk, pipeVars, gateVars, batchVars, mergeVars, scoreVars,
                 chunkVars, queueVars, jobVars>>

AnalyzeWithRetry ==
  /\ rsteps < MaxRetrySteps
  /\ \E o \in StepOutcomes("analyze") :
       rs' = ApplyUpdate(rs, analyzeNodeWithRetry(rs, o, configOk))
  /\ rsteps' = rsteps + 1
  /\ UNCHANGED <<configOk, pipeVars, gateVars, batchVars, mergeVars, scoreVars,
                 chunkVars, queueVars, jobVars>>

(* a stage asks for a retry with the helper, passing the state's counters *)
CreateRetry ==
  /\ rsteps < MaxRetrySteps
  /\ CurrentAttempt(rs) <= MaxAttemptBound
  /\ rs' = ApplyUpdate(rs, createRetryState(CurrentAttempt(rs),
                                           EffectiveMaxRetries(rs),
                                           "retry requested"))
  /\ rsteps' = rsteps + 1
  /\ UNCHANGED <<configOk, pipeVars, gateVars, batchVars, mergeVars, scoreVars,
                 chunkVars, queueVars, jobVars>>

RetryNext ==
  \/ ConvertWithRetry
  \/ AnalyzeWithRetry
  \/ CreateRetry

SpecRetry == RetryInit /\ [][RetryNext]_vars

----------------------------------------------------------------------------
(* The gates as functions of the state *)

(* the artifacts a gate looks at *)
ScoreArtifacts ==
  [summary : {Null} \cup {Some(n) : n \in SummaryLengths},
   analysis : {Null} \cup {Some(a) : a \in AnalysisShapes},
   draft : {Null} \cup
           {Some(o.draft) : o \in WriteOutcomes \ {[kind |-> "throws"]}}]

(* everything else of a state: status, retry counters, log *)
ScoreContexts ==
  {[status |-> "quality_check", maxRetries |-> DefaultMaxRetries,
    retryInfo |-> Null, log |-> <<"Starting">>],
   [status |-> "analyzing", maxRetries |-> 0,
    retryInfo |-> Some([attempt |-> 2, maxAttempts |-> DefaultMaxRetries]),
    log |-> <<"Starting", "Analysis quality check", "Score">>],
   [status |-> "error", maxRetries |-> 1,
    retryInfo |-> Some([attempt |-> 1, maxAttempts |-> 1]),
    log |-> <<>>]}

ScoreState(art, ctx) ==
  [InitialState("a.pdf", ctx.maxRetries, "Starting") EXCEPT
     !.status = ctx.status, !.retryInfo = ctx.retryInfo, !.log = ctx.log,
     !.markdown = Some([src |-> "a.pdf", length |-> 1000]),
     !.summary = art.summary, !.analysis = art.analysis,
     !.draft = art.draft]

BaseContext ==
  [status |-> "quality_check", maxRetries |-> DefaultMaxRetries,
   retryInfo |-> Null, log |-> <<"Starting">>]

ScoreInit ==
  /\ \E art \in ScoreArtifacts : \E ctx \in ScoreContexts :
       /\ qa = ScoreState(art, BaseContext)
       /\ qb = ScoreState(art, ctx)
  /\ qgate = "none"
  /\ qra = Null /\ qrb = Null
  /\ configOk \in BOOLEAN
  /\ PipeIdle
  /\ GateIdle
  /\ BatchIdle
  /\ MergeIdle
  /\ RetryIdle
  /\ ChunkIdle
  /\ QueueIdle
  /\ JobIdle

(* getConfig() is called before the try block of every gate: when it *)
(* throws the call is rejected and no quality record exists          *)
CallAnalysisGate ==
  /\ qgate = "none"
  /\ qgate' = "analysis"
  /\ qra' = IF configOk THEN analysisQualityCheckNode(qa).qualityCheck
            ELSE Null
  /\ qrb' = IF configOk THEN analysisQualityCheckNode(qb).qualityCheck
            ELSE Null
  /\ UNCHANGED <<qa, qb, configOk, pipeVars, gateVars, batchVars,
                 mergeVars, retryVars, chunkVars, queueVars, jobVars>>

CallDraftGate ==
  /\ qgate = "none"
  /\ qgate' = "draft"
  /\ qra' = IF configOk THEN draftQualityCheckNode(qa).qualityCheck
            ELSE Null
  /\ qrb' = IF configOk THEN draftQualityCheckNode(qb).qualityCheck
            ELSE Null
  /\ UNCHANGED <<qa, qb, configOk, pipeVars, gateVars, batchVars,
                 mergeVars, retryVars, chunkVars, queueVars, jobVars>>

CallCombinedGate ==
  /\ qgate = "none"
  /\ qgate' = "combined"
  /\ qra' = IF configOk THEN qualityCheckNode(qa).qualityCheck ELSE Null
  /\ qrb' = IF configOk THEN qualityCheckNode(qb).qualityCheck ELSE Null
  /\ UNCHANGED <<qa, qb, configOk, pipeVars, gateVars, batchVars,
                 mergeVars, retryVars, chunkVars, queueVars, jobVars>>

ScoreNext ==
  \/ CallAnalysisGate
  \/ CallDraftGate
  \/ CallCombinedGate

SpecScore == ScoreInit /\ [][ScoreNext]_vars

----------------------------------------------------------------------------
(* VectorStore.splitIntoChunks: the words of the text are the positions    *)
(* 0..kwords-1 of text.split(/\s+/), which has at least one element        *)

(* the positions words.slice(from, to) takes *)
SliceWords(from, to, n) == SliceIndex(from, n)..(SliceIndex(to, n) - 1)

ChunkInit ==
  /\ kwords \in 1..MaxWords
  /\ kchunkSize \in 1..MaxChunkSize
  /\ koverlap \in 0..MaxChunkSize
  /\ kstart = 0
  /\ kchunks = <<>>
  /\ kphase = "loop"
  /\ configOk = TRUE
  /\ PipeIdle
  /\ GateIdle
  /\ BatchIdle
  /\ MergeIdle
  /\ RetryIdle
  /\ ScoreIdle
  /\ QueueIdle
  /\ JobIdle

(* one iteration of while (start < words.length) *)
SplitIteration ==
  /\ kphase = "loop" /\ kstart < kwords
  /\ Len(kchunks) < MaxChunks
  /\ LET end == Min(kstart + kchunkSize, kwords)
     IN /\ kchunks' = Append(kchunks,
                          [words |-> SliceWords(kstart, end, kwords),
                           index |-> Len(kchunks)])
        /\ kstart' = end - koverlap
  /\ UNCHANGED <<kwords, kchunkSize, koverlap, kphase, configOk, pipeVars,
                 gateVars, batchVars, mergeVars, retryVars, scoreVars,
                 queueVars, jobVars>>

(* the loop condition fails: return chunks *)
SplitReturn ==
  /\ kphase = "loop" /\ ~(kstart < kwords)
  /\ kphase' = "returned"
  /\ UNCHANGED <<kwords, kchunkSize, koverlap, kstart, kchunks, configOk,
                 pipeVars, gateVars, batchVars, mergeVars, retryVars,
                 scoreVars, queueVars, jobVars>>

ChunkNext ==
  \/ SplitIteration
  \/ SplitReturn

SpecChunk == ChunkInit /\ [][ChunkNext]_vars

----------------------------------------------------------------------------
(* Orchestrator: the evaluation queue.  A step is the code that runs       *)
(* between two awaits; the continuations of the awaits run oldest first.   *)

(* a proposal is the number of criteria its text meets *)
Proposals == 0..1

(* performEvaluation: the result is computed from the proposal alone *)
performEvaluation(proposal) ==
  [overallScore |-> 50 * proposal,
   rating |-> IF proposal = 1 THEN "fair" ELSE "poor"]

(* processQueueWhenIdle up to its await: the orchestrator's fields after *)
(* the call, given them before                                           *)
processQueueWhenIdle(o) ==
  IF o.isWorking \/ Len(o.evaluationQueue) = 0 THEN o
  ELSE [isWorking |-> TRUE,
        currentTask |-> "evaluation",
        evaluationQueue |-> Tail(o.evaluationQueue),
        inFlight |-> Append(o.inFlight,
                       [id |-> Head(o.evaluationQueue).id,
                        result |-> performEvaluation(
                                     Head(o.evaluationQueue).proposal)])]

OrchestratorFields ==
  [isWorking |-> isWorking, currentTask |-> currentTask,
   evaluationQueue |-> evaluationQueue, inFlight |-> inFlight]

SetOrchestrator(o) ==
  /\ isWorking' = o.isWorking
  /\ currentTask' = o.currentTask
  /\ evaluationQueue' = o.evaluationQueue
  /\ inFlight' = o.inFlight

QueueInit ==
  /\ isWorking = FALSE
  /\ currentTask = "none"
  /\ evaluationQueue = <<>>
  /\ inFlight = <<>>
  /\ settled = <<>>
  /\ queued = <<>>
  /\ configOk = TRUE
  /\ PipeIdle
  /\ GateIdle
  /\ BatchIdle
  /\ MergeIdle
  /\ RetryIdle
  /\ ScoreIdle
  /\ ChunkIdle
  /\ JobIdle

(* queueEvaluation: push, then processQueueWhenIdle *)
QueueEvaluation ==
  /\ Len(queued) < MaxQueued
  /\ \E proposal \in Proposals :
       /\ queued' = Append(queued, proposal)
       /\ SetOrchestrator(processQueueWhenIdle(
            [OrchestratorFields EXCEPT
               !.evaluationQueue =
                  Append(evaluationQueue,
                         [id |-> Len(queued) + 1, proposal |-> proposal])]))
  /\ UNCHANGED <<settled, configOk, pipeVars, gateVars, batchVars, mergeVars,
                 retryVars, scoreVars, chunkVars, jobVars>>

(* processQueueWhenIdle after its await: the callback, then the finally *)
(* block, which starts on the next item                                 *)
EvaluationDone ==
  /\ inFlight # <<>>
  /\ settled' = Append(settled, Head(inFlight))
  /\ SetOrchestrator(
       LET o == [OrchestratorFields EXCEPT !.isWorking = FALSE,
                                           !.currentTask = "none",
                                           !.inFlight = Tail(inFlight)]
       IN IF Len(evaluationQueue) > 0 THEN processQueueWhenIdle(o) ELSE o)
  /\ UNCHANGED <<queued, configOk, pipeVars, gateVars, batchVars, mergeVars,
                 retryVars, scoreVars, chunkVars, jobVars>>

(* coordinateResearchWorkflow has no await: it runs to its finally block *)
CoordinateResearchWorkflow ==
  /\ isWorking' = FALSE
  /\ currentTask' = "none"
  /\ UNCHANGED <<evaluationQueue, inFlight, settled, queued, configOk,
                 pipeVars, gateVars, batchVars, mergeVars, retryVars,
                 scoreVars, chunkVars, jobVars>>

Shutdown ==
  /\ evaluationQueue' = <<>>
  /\ isWorking' = FALSE
  /\ UNCHANGED <<currentTask, inFlight, settled, queued, configOk, pipeVars,
                 gateVars, batchVars, mergeVars, retryVars, scoreVars,
                 chunkVars, jobVars>>

QueueNext ==
  \/ QueueEvaluation
  \/ EvaluationDone
  \/ CoordinateResearchWorkflow
  \/ Shutdown

SpecQueue == QueueInit /\ [][QueueNext]_vars

----------------------------------------------------------------------------
(* The REST API: POST /api/single and POST /api/review create a job and    *)
(* start the run; the handler of the run's promise settles the job         *)

(* the mutant calls every result without error completed *)
JobStatusUnlessError(result) ==
  IF result.status # "error" THEN "completed" ELSE "failed"

(* result.status === 'completed' ? 'completed' : 'failed' *)
JobStatusOf(result) ==
  IF result.status = "completed" THEN "completed" ELSE "failed"

(* the request passed validation: the job is stored and the run started *)
JobInit ==
  /\ wf \in {"single", "review"}
  /\ configOk \in BOOLEAN
  /\ \E m \in 0..MaxRetriesBound :
       init0 = InitialState("a.pdf",
                            IF wf = "single" THEN DefaultMaxRetries ELSE m,
                            IF wf = "single"
                            THEN "Starting single paper workflow"
                            ELSE "Starting literature review workflow")
  /\ st = init0
  /\ pc = "convert"
  /\ trace = <<>>
  /\ job = Some([type |-> wf, status |-> "running", progress |-> 0,
                 result |-> Null, error |-> Null])
  /\ jobStored = TRUE
  /\ jobSettled = FALSE
  /\ GateIdle
  /\ BatchIdle
  /\ MergeIdle
  /\ RetryIdle
  /\ ScoreIdle
  /\ ChunkIdle
  /\ QueueIdle

(* .then((result) => ...): the run wrappers resolve with the final state,  *)
(* or with the state their catch block builds, and never reject            *)
JobSettle ==
  /\ job # Null /\ pc = "returned" /\ ~jobSettled
  /\ job' = Some([Val(job) EXCEPT !.status = JobStatusOf(st),
                                  !.progress = 100,
                                  !.result = Some(st),
                                  !.error = st.error])
  /\ jobSettled' = TRUE
  /\ UNCHANGED <<jobStored, configOk, pipeVars, gateVars, batchVars,
                 mergeVars, retryVars, scoreVars, chunkVars, queueVars>>

(* DELETE /api/jobs/:jobId: the map drops the job; the handler of the run *)
(* still holds the object                                                 *)
DeleteJob ==
  /\ job # Null /\ jobStored
  /\ jobStored' = FALSE
  /\ UNCHANGED <<job, jobSettled, configOk, pipeVars, gateVars, batchVars,
                 mergeVars, retryVars, scoreVars, chunkVars, queueVars>>

JobNext ==
  \/ Convert
  \/ Analyze
  \/ Write
  \/ AnalysisQualityCheck
  \/ DraftQualityCheck
  \/ ReturnResult
  \/ JobSettle
  \/ DeleteJob

SpecJob == JobInit /\ [][JobNext]_vars

----------------------------------------------------------------------------
(* Properties of the pipeline runs *)

GateEvaluations == {i \in 1..Len(trace) : trace[i].node \in GateNodes}
FailedEvaluations == {i \in GateEvaluations : trace[i].gate = "failed"}
EveryGateFailed == \A i \in GateEvaluations : trace[i].gate = "failed"
RunEnded == pc \in {"END", "returned"}
LastEntry == trace[Len(trace)]

(* C1: a literature-review run whose quality gate fails on every           *)
(* evaluation makes at most maxRetries + 1 gate evaluations, and has ended *)
(* once that many evaluations have failed.                                 *)
C1_Termination ==
  (wf = "review" /\ EveryGateFailed) =>
     /\ Cardinality(GateEvaluations) <= init0.maxRetries + 1
     /\ (Cardinality(GateEvaluations) = init0.maxRetries + 1 => RunEnded)

C1_Witness ==
  /\ wf = "review" /\ pc = "returned" /\ EveryGateFailed
  /\ Cardinality(GateEvaluations) = init0.maxRetries + 1

(* C2: every run of the single-paper and of the literature-review workflow *)
(* returns a state whose status is completed or error.                     *)
C2_FinalStatusTerminal ==
  pc = "returned" => st.status \in {"completed", "error"}

(* C3: once a stage (convert, analyze, write) has returned status = error, *)
(* no later node of the same run is invoked.                               *)
C3_NoStageAfterError ==
  \A i \in 1..Len(trace) :
    (trace[i].node \in StageNodes /\ trace[i].status = "error")
       => i = Len(trace)

(* C4: when the gate fails with retries exhausted (attempt >= maxRetries), *)
(* the run ends with status completed and keeps the failed quality record. *)
C4_ExhaustedEndsCompleted ==
  ( /\ wf = "review" /\ pc = "returned" /\ Len(trace) > 0
    /\ LastEntry.gate = "failed"
    /\ CurrentAttempt(st) >= st.maxRetries )
  => /\ st.status = "completed"
     /\ ~IsNull(st.qualityCheck) /\ ~Val(st.qualityCheck).passed

----------------------------------------------------------------------------
(* Properties of the combined gate *)

GateFailed ==
  gdone /\ groute # "threw" /\ ~Val(gst.qualityCheck).passed

(* C5: with maxRetries = 0 the first failing gate evaluation returns the   *)
(* terminal label; no stage is retried.                                    *)
C5_ZeroRetriesTerminal ==
  (GateFailed /\ gpre.maxRetries = 0) => groute = "completed"

(* C6: a failing evaluation with retries remaining increases               *)
(* retryInfo.attempt by exactly 1; a passing evaluation leaves it alone.   *)
C6_AttemptIncrement ==
  (gdone /\ groute # "threw") =>
     IF ~Val(gst.qualityCheck).passed
        /\ CurrentAttempt(gpre) < gpre.maxRetries
     THEN CurrentAttempt(gst) = CurrentAttempt(gpre) + 1
     ELSE Val(gst.qualityCheck).passed => gst.retryInfo = gpre.retryInfo

----------------------------------------------------------------------------
(* Properties of the multi-paper runners *)

Indices == 0..(NumPapers - 1)
Done == {doneOrder[j] : j \in 1..Len(doneOrder)}
LoopFinished ==
  bphase \in {"synth", "compare", "returned"}
  \/ (bphase = "loop" /\ bi >= NumPapers)

(* C8: a failing input aborts no sibling: once the loop over the inputs    *)
(* has finished, the result list holds exactly one record per input and    *)
(* every input's run has terminated, exactly once.                         *)
C8_OneRecordPerInput ==
  LoopFinished =>
     /\ Len(aggregatedResults) = NumPapers
     /\ \A k \in Indices : aggregatedResults[k + 1].index = k
     /\ Len(doneOrder) = NumPapers
     /\ Done = Indices

(* the first input failed, two later ones (same and next wave) succeeded *)
C8_Witness ==
  /\ bphase = "returned" /\ mode = "par" /\ concurrency = 2
  /\ NumPapers = 3
  /\ aggregatedResults[1].error # Null
  /\ aggregatedResults[2].error = Null
  /\ aggregatedResults[3].error = Null
  /\ aggregatedResults[3].analysis # Null

(* C9: with concurrency > 1, record k of the result list has index k and   *)
(* the k-th input's reference, whatever order the runs completed in.       *)
C9_BatchOrdering ==
  (mode = "par" /\ concurrency > 1) =>
     \A j \in 1..Len(aggregatedResults) :
        /\ aggregatedResults[j].index = j - 1
        /\ aggregatedResults[j].pdfPath = pdfPaths[j]

(* the runs of a wave completed in an order other than the input order *)
C9_Witness ==
  /\ mode = "par" /\ concurrency > 1 /\ bphase = "returned"
  /\ Len(aggregatedResults) = NumPapers
  /\ \E a, b \in 1..Len(doneOrder) : a < b /\ doneOrder[a] > doneOrder[b]
  /\ pdfPaths[1] # pdfPaths[2]

(* C10: with concurrency C >= 1 at most C runs are in flight, and a run is *)
(* dispatched only after every run of the earlier waves has terminated.    *)
C10_BoundedWaves ==
  (mode = "par" /\ concurrency >= 1) =>
     /\ Cardinality(Running) <= concurrency
     /\ \A k \in DOMAIN pipes : \A j \in Indices :
          (j \div concurrency) < (k \div concurrency) => j \in Done

(* a full second wave in flight *)
C10_Witness ==
  /\ mode = "par" /\ concurrency = 2 /\ bi = 2
  /\ Cardinality(Running) = 2
  /\ Done = {0, 1}

ErrorFree == SuccessfulResults(aggregatedResults)

(* C11: synthesis is invoked exactly once, on exactly the error-free       *)
(* records, when at least two records carry no error, and never when fewer *)
(* do; in sequential and in parallel mode.                                 *)
C11_SynthesisOnErrorFree ==
  bphase = "returned" =>
     IF Len(ErrorFree) >= 2 THEN synthLog = <<ErrorFree>>
     ELSE synthLog = <<>>

(* the synthesis attempt of a returned batch produced no accepted draft *)
SynthesisFailed ==
  /\ bphase = "returned"
  /\ synthLog # <<>> \/ cmp # Null
  /\ Val(bresult).draft = Null

(* C12: a failed synthesis leaves the batch status completed, never error, *)
(* in sequential and in parallel mode.                                     *)
C12_SynthesisFailureCompleted ==
  SynthesisFailed => Val(bresult).status = "completed"

(* C13: the record of an input whose run ended in error carries a          *)
(* non-empty error and none of markdown, summary, analysis, metadata.      *)
C13_ErrorRecordBare ==
  \A k \in DOMAIN resolved :
     pipes[k].st.status = "error" =>
        /\ resolved[k].error # Null
        /\ Val(resolved[k].error) # ""
        /\ resolved[k].markdown = Null
        /\ resolved[k].summary = Null
        /\ resolved[k].analysis = Null
        /\ resolved[k].metadata = Null

(* C14: synthesis starts only after the run of every input of every wave   *)
(* has terminated and been collected; the batch state is returned only     *)
(* when no synthesis call is pending.                                      *)
C14_SynthesisAfterAllRuns ==
  /\ (synthLog # <<>> \/ bphase = "synth") =>
        /\ Done = Indices
        /\ Running = {}
        /\ Len(aggregatedResults) = NumPapers
  /\ bresult # Null => bphase = "returned"
  /\ bphase = "returned" => bresult # Null /\ Len(synthLog) <= 1

(* synthesis pending after two waves, the second one a single run *)
C14_Witness ==
  /\ mode = "par" /\ bphase = "synth" /\ concurrency = 2
  /\ NumPapers = 3 /\ bi = 4
  /\ Len(synthLog) = 1 /\ bresult = Null
  /\ Len(doneOrder) = 3

----------------------------------------------------------------------------
(* Properties of the reducers *)

RECURSIVE ListsOf(_, _)
(* the concatenation, in order, of the lists the updates carry for a field *)
ListsOf(us, field) ==
  IF us = <<>> THEN <<>>
  ELSE (IF field \in DOMAIN Head(us) /\ Head(us)[field] # Null
        THEN Val(Head(us)[field]) ELSE <<>>)
       \o ListsOf(Tail(us), field)

LastUpdate == mupd[Len(mupd)]
Updated(field) == mupd # <<>> /\ field \in DOMAIN LastUpdate

(* C15: after any sequence of updates the log is the initial log followed  *)
(* by the updates' logs in application order, and likewise                 *)
(* aggregatedResults; an update without the field leaves it unchanged.     *)
C15_AppendOnly ==
  /\ ms.log = ms0.log \o ListsOf(mupd, "log")
  /\ cs.log = ms0.log \o ListsOf(mupd, "log")
  /\ ms.aggregatedResults =
       ms0.aggregatedResults \o ListsOf(mupd, "aggregatedResults")
  /\ cs.aggregatedResults =
       ms0.aggregatedResults \o ListsOf(mupd, "aggregatedResults")

(* two log updates around an update without a log *)
C15_Witness ==
  /\ Len(mupd) = 3
  /\ "log" \in DOMAIN mupd[1] /\ "log" \notin DOMAIN mupd[2]
  /\ "log" \in DOMAIN mupd[3]
  /\ ms.log = <<"l0", "l2", "l3", "l1">>
  /\ ms.aggregatedResults = <<"r2", "r1">>

(* the progression table of the status merge *)
ProgressionRank(s) ==
  CASE s = "idle" -> 0
    [] s = "converting" -> 1
    [] s = "analyzing" -> 2
    [] s = "writing" -> 3
    [] s = "quality_check" -> 4
    [] s = "completed" -> 5
Progression ==
  {"idle", "converting", "analyzing", "writing", "quality_check",
   "completed"}

C18_RetryInfoMerge ==
  (Updated("retryInfo") /\ LastUpdate.retryInfo # Null) =>
     LET n == Val(LastUpdate.retryInfo)
         r == Val(ms.retryInfo)
     IN /\ r.attempt = n.attempt
        /\ r.maxAttempts = n.maxAttempts
        /\ r.reason = n.reason
        /\ r.lastError =
             IF n.lastError # Null THEN n.lastError
             ELSE IF mprev.retryInfo = Null THEN Null
             ELSE Val(mprev.retryInfo).lastError

(* C20: merging an analysis update into an existing analysis concatenates  *)
(* every list-valued sub-field, previous entries first, and takes the      *)
(* update's methodology and conclusions, the empty string included.        *)
C20_AnalysisMerge ==
  ( /\ Updated("analysis") /\ LastUpdate.analysis # Null
    /\ mprev.analysis # Null ) =>
     LET p == Val(mprev.analysis)
         n == Val(LastUpdate.analysis)
         a == Val(ms.analysis)
     IN /\ \A f \in {"researchGap", "relatedPapers", "keyFindings",
                      "strengths", "limitations", "suggestions"} :
             a[f] = p[f] \o n[f]
        /\ a.methodology = n.methodology
        /\ a.conclusions = n.conclusions

(* C21: for the replace field qualityCheck the merged value depends only   *)
(* on the last update that specified it: folding any earlier updates and   *)
(* then u2 gives the same qualityCheck as applying u2 alone.               *)
C21_ReplaceDeterminism ==
  (Updated("qualityCheck") /\ LastUpdate.qualityCheck # Null) =>
     /\ ms.qualityCheck = mergeStateReducer(ms0, LastUpdate).qualityCheck
     /\ cs.qualityCheck =
          ApplyUpdate(ms0, ChannelUpdate(LastUpdate)).qualityCheck
     /\ ms.qualityCheck = LastUpdate.qualityCheck

(* u1 and u2 specify different quality records *)
C21_Witness ==
  /\ Len(mupd) >= 2 /\ Updated("qualityCheck")
  /\ LastUpdate.qualityCheck = Some(QualityB)
  /\ "qualityCheck" \in DOMAIN mupd[Len(mupd) - 1]
  /\ mupd[Len(mupd) - 1].qualityCheck = Some(QualityA)
  /\ mprev.qualityCheck = Some(QualityA)
  /\ ms.qualityCheck = Some(QualityB)

Front(q) == SubSeq(q, 1, Len(q) - 1)

(* C22: mergeStateReducer is total and pure: every call returns a state    *)
(* over the same fields, the state handed in is as it was, the result is a *)
(* function of the arguments, and every field the update does not carry    *)
(* keeps its previous value.                                               *)
C22_MergeTotalPure ==
  /\ DOMAIN ms = DOMAIN ms0
  /\ ms.status \in WorkflowStatus
  /\ ms = batchStateReducer(ms0, mupd)
  /\ mupd # <<>> =>
        /\ mprev = batchStateReducer(ms0, Front(mupd))
        /\ ms = mergeStateReducer(mprev, LastUpdate)
        /\ \A k \in DOMAIN ms \ DOMAIN LastUpdate : ms[k] = mprev[k]

(* an update that carries only a draft, on a populated state *)
C22_Witness ==
  /\ Len(mupd) = 3 /\ DOMAIN LastUpdate = {"draft"}
  /\ mprev.analysis # Null /\ ms.analysis = mprev.analysis
  /\ Len(mprev.log) > 1 /\ ms.log = mprev.log
  /\ ms.draft # Null

----------------------------------------------------------------------------
(* Properties of the gates as functions *)

Scored == qgate \in {"analysis", "draft", "combined"} /\ qra # Null

(* C23: every gate's score lies in 0..100 and passed is true exactly when  *)
(* the score is at least 60.                                               *)
C23_ScoreRange ==
  \A r \in {qra, qrb} :
     r # Null =>
        /\ Val(r).score \in 0..100
        /\ Val(r).passed <=> Val(r).score >= 60

(* the analysis gate on the threshold: 100 - 20 - 10 - 10 *)
C23_Witness ==
  /\ Scored /\ qgate = "analysis"
  /\ Val(qra).score = 60 /\ Val(qra).passed

SameArtifacts(a, b) ==
  a.summary = b.summary /\ a.analysis = b.analysis /\ a.draft = b.draft

(* C24: the analysis gate and the combined gate give two states with the   *)
(* same summary, analysis and draft shapes the same score and passed,      *)
(* whatever their status, retryInfo and log.                               *)
C24_ScoreDeterminism ==
  (Scored /\ qgate \in {"analysis", "combined"} /\ SameArtifacts(qa, qb))
  => /\ qrb # Null
     /\ Val(qra).score = Val(qrb).score
     /\ Val(qra).passed = Val(qrb).passed

(* a failing score on two states that differ in every other field *)
C24_Witness ==
  /\ Scored /\ qgate = "analysis" /\ SameArtifacts(qa, qb)
  /\ qa.status # qb.status /\ qa.retryInfo # qb.retryInfo
  /\ qa.log # qb.log /\ qa.maxRetries # qb.maxRetries
  /\ qa.analysis # Null
  /\ ~Val(qra).passed /\ ~Val(qrb).passed

(* C25: an analysis with fewer key findings than the minimum fails the     *)
(* analysis gate (score <= 59, passed false), whatever the other sections. *)
C25_FewFindingsFail ==
  ( /\ Scored /\ qgate = "analysis" /\ qa.analysis # Null
    /\ Val(qa.analysis).keyFindings < MinAnalysisItems )
  => Val(qra).score <= 59 /\ ~Val(qra).passed

(* C26: a draft shorter than the minimum draft length fails the draft gate *)
(* (score < 60, passed false, at least one issue), with or without a       *)
(* heading or a conclusion marker.                                         *)
C26_ShortDraftFails ==
  ( /\ Scored /\ qgate = "draft" /\ qa.draft # Null
    /\ Val(qa.draft).length < MinDraftLength )
  => /\ Val(qra).score < 60 /\ ~Val(qra).passed
     /\ Val(qra).issues >= 1

----------------------------------------------------------------------------
(* Status progression in pipeline runs *)

(* C17: in a pipeline run the status never moves to a lower-ranked         *)
(* progression status (only retry and error updates are exempt), and a     *)
(* completed status is never replaced by error.                            *)
C17_NoStatusRegression ==
  [][ /\ (st.status \in Progression /\ st'.status \in Progression) =>
           ProgressionRank(st'.status) >= ProgressionRank(st.status)
      /\ st.status = "completed" => st'.status # "error" ]_vars

----------------------------------------------------------------------------
(* Properties of the retrying stages *)

(* C19: retryInfo.attempt never decreases and never exceeds                *)
(* retryInfo.maxAttempts, whatever sequence of outcomes the retrying       *)
(* stages and createRetryState produce.                                    *)
C19_AttemptBounded ==
  [][ /\ CurrentAttempt(rs') >= CurrentAttempt(rs)
      /\ rs'.retryInfo # Null =>
            Val(rs'.retryInfo).attempt <= Val(rs'.retryInfo).maxAttempts
    ]_vars

----------------------------------------------------------------------------
(* Exceptions escaping a stage *)

Escaped == Len(trace) > 0 /\ LastEntry.status = "threw"

IsPrefix(a, b) == Len(a) <= Len(b) /\ SubSeq(b, 1, Len(a)) = a

(* C28: a run that ends with status error has a non-empty error message    *)
(* and a log that still holds every entry appended before the failure.     *)
C28_ErrorKeepsLog ==
  [][ (pc' = "returned" /\ st'.status = "error") =>
         /\ st'.error # Null
         /\ Val(st'.error) # ""
         /\ IsPrefix(st.log, st'.log) ]_vars

----------------------------------------------------------------------------
(* C29: the runs of one batch share no mutable state: the markdown in the  *)
(* result record of input i is the conversion of input i itself, never the *)
(* output another run of the same wave left in the converter's file.       *)
C29_PipelineIsolation ==
  \A k \in DOMAIN resolved :
     resolved[k].markdown # Null =>
        resolved[k].markdown[1].src = PathAt(k)

----------------------------------------------------------------------------
(* the retries made so far: the failed gates that were followed by a stage *)
RetriesMade(t) ==
  Cardinality({i \in 1..(Len(t) - 1) :
                 /\ t[i].gate = "failed"
                 /\ t[i + 1].node \in {"analyze", "write"}})

(* C30: in the literature-review workflow started with maxRetries >= 1, a  *)
(* failed analysis quality check routes back to analyze and a failed draft *)
(* quality check routes back to write, as long as fewer than maxRetries    *)
(* retries have been made.                                                 *)
C30_FailedGateRetries ==
  [][ ( /\ wf = "review"
        /\ init0.maxRetries >= 1
        /\ Len(trace') = Len(trace) + 1
        /\ trace'[Len(trace')].gate = "failed"
        /\ RetriesMade(trace') < init0.maxRetries )
      => /\ trace'[Len(trace')].node = "analysis_quality_check"
              => pc' = "analyze"
         /\ trace'[Len(trace')].node = "draft_quality_check"
              => pc' = "write" ]_vars

----------------------------------------------------------------------------
(* C31: a run of the multi-paper graph on a state with totalPapers >= 2    *)
(* reaches END after finitely many stage invocations: currentPaperIndex    *)
(* advances on each pass through convert and analyze, so after one pass    *)
(* per paper the router has left the cycle.                                *)
C31_MultiPaperGraphEnds ==
  (cmp # Null /\ Val(cmp).st.totalPapers >= 2) =>
     (Val(cmp).steps >= 2 * Val(cmp).st.totalPapers =>
        Val(cmp).pc \in {"write_comparison", "END", "threw"})

----------------------------------------------------------------------------
(* C32: the parallel runner terminates and dispatches every input exactly  *)
(* once for every integer concurrency, 0 and negative values included:     *)
(* every wave it awaits has run exactly the inputs from the loop index up  *)
(* to the next loop index, and the loop index has moved forward.           *)
C32_WaveProgress ==
  [][ (mode = "par" /\ bphase = "wave" /\ bphase' = "loop")
      => /\ bi' > bi
         /\ DOMAIN pipes = bi..(Min(bi', NumPapers) - 1) ]_vars

----------------------------------------------------------------------------
(* C33: in the single-paper pipeline the error message of the final state  *)
(* is the message of the first stage that failed: once a stage has set an  *)
(* error message, no later step replaces it.                               *)
C33_FirstErrorKept ==
  [][ (wf = "single" /\ st.error # Null) => st'.error = st.error ]_vars

----------------------------------------------------------------------------
(* C34: for every batch result, sequential or parallel, the summary has    *)
(* successfulPapers + failedPapers = totalPapers, and failedPapers is the  *)
(* number of inputs whose run ended with status error: a record counts as  *)
(* failed exactly when its run ended in error.                             *)
C34_SummaryCounts ==
  /\ \A k \in DOMAIN resolved :
        (pipes[k].st.status = "error") <=> ~NoError(resolved[k])
  /\ bresult # Null =>
        LET sum == getMultiPaperSummary(Val(bresult))
        IN /\ sum.successfulPapers + sum.failedPapers = sum.totalPapers
           /\ sum.failedPapers =
                Cardinality({j \in 1..Len(aggregatedResults) :
                               ~NoError(aggregatedResults[j])})

----------------------------------------------------------------------------
(* the outcomes of the analysis quality checks so far, in order *)
AnalysisGates(t) ==
  SelectSeq(t, LAMBDA en : en.node = "analysis_quality_check")

(* C35: in the literature-review workflow the write stage is invoked only  *)
(* when the most recent analysis quality check passed or a draft already   *)
(* exists, and the run ends as passed only when the last gate evaluated a  *)
(* state that has a draft.                                                 *)
C35_WriteAfterPassedGate ==
  wf = "review" =>
     /\ pc = "write" =>
          \/ /\ AnalysisGates(trace) # <<>>
             /\ AnalysisGates(trace)[Len(AnalysisGates(trace))].gate = "passed"
          \/ ~NoDraft(st)
     /\ (pc \in {"END", "returned"} /\ trace # <<>>
           /\ trace[Len(trace)].gate = "passed") => ~NoDraft(st)

(* a run that passed the analysis gate, wrote, passed the draft gate and   *)
(* has returned                                                            *)
C35_Witness ==
  /\ wf = "review" /\ pc = "returned" /\ Len(trace) = 5
  /\ trace[3].node = "analysis_quality_check" /\ trace[3].gate = "passed"
  /\ trace[4].node = "write"
  /\ trace[5].node = "draft_quality_check" /\ trace[5].gate = "passed"
  /\ ~NoDraft(st)

----------------------------------------------------------------------------
(* C36: from a current status of retry or error the status reducer applies *)
(* only the updates retry, error and completed; an update to idle,         *)
(* converting, analyzing, writing or quality_check leaves the status as it *)
(* was.                                                                    *)
C36_RetryErrorSticky ==
  (Updated("status") /\ mprev.status \in {"retry", "error"}) =>
     ms.status = (IF LastUpdate.status \in {"retry", "error", "completed"}
                  THEN LastUpdate.status
                  ELSE mprev.status)

(* after an error update and a retry update, an update to analyzing was   *)
(* not applied                                                             *)
C36_Witness ==
  /\ Len(mupd) = 3
  /\ Updated("status") /\ LastUpdate.status = "analyzing"
  /\ mprev.status = "retry" /\ ms.status = "retry"
  /\ "status" \in DOMAIN mupd[1] /\ mupd[1].status = "error"

----------------------------------------------------------------------------
(* C37: splitIntoChunks terminates for every text whenever chunkSize >     *)
(* overlap >= 0, and the chunks it returns cover every word: every chunk   *)
(* but the first starts after the start of the one before it, so there are *)
(* no more chunks than words, and the returned chunks hold every position. *)
C37_ChunksTerminate ==
  (kphase # "idle" /\ kchunkSize > koverlap) =>
     /\ Len(kchunks) <= kwords
     /\ kphase = "returned" =>
          \A w \in 0..(kwords - 1) :
             \E i \in 1..Len(kchunks) : w \in kchunks[i].words

----------------------------------------------------------------------------
(* C38: the Orchestrator processes the queued evaluations one at a time in *)
(* FIFO order: at most one evaluation is in progress at any moment, and    *)
(* each queued proposal's promise is resolved at most once, in the order   *)
(* of the calls, with the result for that proposal.                        *)
C38_OneAtATimeFifo ==
  /\ Len(inFlight) <= 1
  /\ \A i, j \in 1..Len(settled) : i < j => settled[i].id < settled[j].id
  /\ \A i \in 1..Len(settled) :
        settled[i].result = performEvaluation(queued[settled[i].id])

Pending(id) ==
  \/ \E i \in 1..Len(evaluationQueue) : evaluationQueue[i].id = id
  \/ \E i \in 1..Len(inFlight) : inFlight[i].id = id

(* C39: every promise queueEvaluation returned is eventually resolved,     *)
(* whatever the interleaving of queueEvaluation, coordinateResearchWorkflow *)
(* and shutdown: a promise not yet resolved is still held by the           *)
(* orchestrator, in the queue or by a suspended evaluation, and only those *)
(* are ever resolved.                                                      *)
C39_NoPromiseDropped ==
  \A id \in 1..Len(queued) :
     \/ \E i \in 1..Len(settled) : settled[i].id = id
     \/ Pending(id)

----------------------------------------------------------------------------
(* C40: a job's status moves from running to exactly one of completed or   *)
(* failed and never changes afterwards; it becomes completed if and only   *)
(* if the final state of the workflow has status completed.                *)
C40_JobStatus ==
  [][ job # Null =>
        /\ Val(job').status # Val(job).status =>
              /\ Val(job).status = "running"
              /\ Val(job').status \in {"completed", "failed"}
              /\ pc = "returned"
              /\ Val(job').status = "completed" <=> st.status = "completed"
        /\ jobSettled' => Val(job').status \in {"completed", "failed"} ]_vars

(* a review run that ended at a failed gate with status analyzing, no      *)
(* error: its job is failed                                                *)
C40_Witness ==
  /\ job # Null /\ jobSettled /\ Val(job).status = "failed"
  /\ wf = "review" /\ pc = "returned"
  /\ st.status = "analyzing" /\ st.error = Null

====
